---- MODULE Spec2Model ----
(* Ledger engine of src/src/engine.rs: two maps (accounts, deposits) and   *)
(* the five operations deposit, withdraw, dispute, resolve, chargeback.    *)
(* Decimal amounts are modelled as exact integers.                         *)
EXTENDS Integers, Sequences, FiniteSets, TLC

\* ---------------------------------------------------------------- inputs
\* The number of transaction ids in use, and so of deposit records.
NumTxs == 2

Txs == 1..NumTxs
\* Client ids are only compared for equality and each call touches the
\* account of one client: the owner of a record and one other client.
Clients == {1, 2}
\* Amounts of the records fed to the engine: two different positive values.
Amounts == {1, 2}

\* The two maps of the Engine.  A map is a function whose domain is the set
\* of keys present.
VARIABLES accounts, deposits

\* withdrawn[c]: the sum of the amounts of the successful withdrawals of
\* client c so far (a record of the past; the engine keeps none).
VARIABLE withdrawn

\* The driver: where main is ("loop": reading the stream, "failed": returned
\* an error, "done": returned Ok), what it has written with csv_writer
\* (<<>>: nothing, <<records>>: the sequence of account records) and the
\* error it has returned (<<>>: none, <<error>>).
VARIABLES pc, out, err

vars == <<accounts, deposits, withdrawn, pc, out, err>>

\* ------------------------------------------------------------ data types
OkState == "Ok"
DisputeState == "Dispute"
ChargebackState == "Chargeback"
DepositState == {OkState, DisputeState, ChargebackState}

\* Result<(), Error>
OkRes == [kind |-> "Ok"]
AlreadyDisputed(tx) == [kind |-> "AlreadyDisputed", tx |-> tx]
ClientMismatch(tx, expected, found) ==
    [kind |-> "ClientMismatch", tx |-> tx, expected |-> expected, found |-> found]
DuplicateTransactionId(tx) == [kind |-> "DuplicateTransactionId", tx |-> tx]
InsufficientFunds(client, avail, requested) ==
    [kind |-> "InsufficientFunds", client |-> client, available |-> avail,
     requested |-> requested]
Locked(client) == [kind |-> "Locked", client |-> client]
NotDisputed(tx) == [kind |-> "NotDisputed", tx |-> tx]
TransactionNotFound(tx) == [kind |-> "TransactionNotFound", tx |-> tx]

Deposit(client, amount, state) ==
    [client |-> client, amount |-> amount, state |-> state]

AccountDefault == [total |-> 0, held |-> 0, locked |-> FALSE]

available(account) == account.total - account.held

\* self.accounts.entry(client).or_default()
or_default(accts, client) ==
    IF client \in DOMAIN accts THEN accts ELSE accts @@ (client :> AccountDefault)

Outcome(accts, deps, r) == [accounts |-> accts, deposits |-> deps, res |-> r]

\* ------------------------------------------------------------ operations
\* deposit that adds the amount before it looks the transaction id up
deposit_adds_before_check(accts, deps, client, tx, amount) ==
    LET a1 == or_default(accts, client) IN
    IF a1[client].locked THEN Outcome(a1, deps, Locked(client))
    ELSE IF tx \in DOMAIN deps
         THEN Outcome([a1 EXCEPT ![client].total = @ + amount], deps,
                      DuplicateTransactionId(tx))
    ELSE Outcome([a1 EXCEPT ![client].total = @ + amount],
                 deps @@ (tx :> Deposit(client, amount, OkState)),
                 OkRes)

\* deposit that looks the transaction id up before it tests the lock
deposit_lookup_first(accts, deps, client, tx, amount) ==
    LET a1 == or_default(accts, client) IN
    IF tx \in DOMAIN deps THEN Outcome(a1, deps, DuplicateTransactionId(tx))
    ELSE IF a1[client].locked THEN Outcome(a1, deps, Locked(client))
    ELSE Outcome([a1 EXCEPT ![client].total = @ + amount],
                 deps @@ (tx :> Deposit(client, amount, OkState)),
                 OkRes)

\* deposit that inserts its record without looking the transaction id up
deposit_overwrites(accts, deps, client, tx, amount) ==
    LET a1 == or_default(accts, client) IN
    IF a1[client].locked THEN Outcome(a1, deps, Locked(client))
    ELSE Outcome([a1 EXCEPT ![client].total = @ + amount],
                 [x \in DOMAIN deps \cup {tx} |->
                     IF x = tx THEN Deposit(client, amount, OkState) ELSE deps[x]],
                 OkRes)

\* deposit that takes a transaction id as used only within one client
deposit_duplicate_per_client(accts, deps, client, tx, amount) ==
    LET a1 == or_default(accts, client) IN
    IF a1[client].locked THEN Outcome(a1, deps, Locked(client))
    ELSE IF tx \in DOMAIN deps /\ deps[tx].client = client
         THEN Outcome(a1, deps, DuplicateTransactionId(tx))
    ELSE Outcome([a1 EXCEPT ![client].total = @ + amount],
                 [x \in DOMAIN deps \cup {tx} |->
                     IF x = tx THEN Deposit(client, amount, OkState) ELSE deps[x]],
                 OkRes)

deposit(accts, deps, client, tx, amount) ==
    LET a1 == or_default(accts, client) IN
    IF a1[client].locked THEN Outcome(a1, deps, Locked(client))
    ELSE IF tx \in DOMAIN deps THEN Outcome(a1, deps, DuplicateTransactionId(tx))
    ELSE Outcome([a1 EXCEPT ![client].total = @ + amount],
                 deps @@ (tx :> Deposit(client, amount, OkState)),
                 OkRes)

\* withdraw that compares with <= instead of <
withdraw_rejects_equal(accts, deps, client, tx, amount) ==
    LET a1 == or_default(accts, client) IN
    IF a1[client].locked THEN Outcome(a1, deps, Locked(client))
    ELSE IF available(a1[client]) <= amount
         THEN Outcome(a1, deps,
                      InsufficientFunds(client, available(a1[client]), amount))
    ELSE Outcome([a1 EXCEPT ![client].total = @ - amount], deps, OkRes)

\* withdraw that records its transaction id like a deposit does
withdraw_records_tx(accts, deps, client, tx, amount) ==
    LET a1 == or_default(accts, client) IN
    IF a1[client].locked THEN Outcome(a1, deps, Locked(client))
    ELSE IF available(a1[client]) < amount
         THEN Outcome(a1, deps,
                      InsufficientFunds(client, available(a1[client]), amount))
    ELSE Outcome([a1 EXCEPT ![client].total = @ - amount],
                 IF tx \in DOMAIN deps THEN deps
                 ELSE deps @@ (tx :> Deposit(client, amount, OkState)),
                 OkRes)

withdraw(accts, deps, client, tx, amount) ==
    LET a1 == or_default(accts, client) IN
    IF a1[client].locked THEN Outcome(a1, deps, Locked(client))
    ELSE IF available(a1[client]) < amount
         THEN Outcome(a1, deps,
                      InsufficientFunds(client, available(a1[client]), amount))
    ELSE Outcome([a1 EXCEPT ![client].total = @ - amount], deps, OkRes)

\* dispute that refuses only a record that is in Dispute
dispute_unless_disputed(accts, deps, client, tx) ==
    LET a1 == or_default(accts, client) IN
    IF tx \notin DOMAIN deps THEN Outcome(a1, deps, TransactionNotFound(tx))
    ELSE IF deps[tx].client # client
         THEN Outcome(a1, deps, ClientMismatch(tx, client, deps[tx].client))
    ELSE IF deps[tx].state = DisputeState THEN Outcome(a1, deps, AlreadyDisputed(tx))
    ELSE Outcome([a1 EXCEPT ![client].held = @ + deps[tx].amount],
                 [deps EXCEPT ![tx].state = DisputeState],
                 OkRes)

\* dispute with the lock check of deposit and withdraw
dispute_refuses_locked(accts, deps, client, tx) ==
    LET a1 == or_default(accts, client) IN
    IF a1[client].locked THEN Outcome(a1, deps, Locked(client))
    ELSE IF tx \notin DOMAIN deps THEN Outcome(a1, deps, TransactionNotFound(tx))
    ELSE IF deps[tx].client # client
         THEN Outcome(a1, deps, ClientMismatch(tx, client, deps[tx].client))
    ELSE IF deps[tx].state # OkState THEN Outcome(a1, deps, AlreadyDisputed(tx))
    ELSE Outcome([a1 EXCEPT ![client].held = @ + deps[tx].amount],
                 [deps EXCEPT ![tx].state = DisputeState],
                 OkRes)

\* dispute that refuses a deposit larger than the account's total
dispute_requires_funds(accts, deps, client, tx) ==
    LET a1 == or_default(accts, client) IN
    IF tx \notin DOMAIN deps THEN Outcome(a1, deps, TransactionNotFound(tx))
    ELSE IF deps[tx].client # client
         THEN Outcome(a1, deps, ClientMismatch(tx, client, deps[tx].client))
    ELSE IF deps[tx].state # OkState THEN Outcome(a1, deps, AlreadyDisputed(tx))
    ELSE IF deps[tx].amount > a1[client].total
         THEN Outcome(a1, deps,
                      InsufficientFunds(client, a1[client].total, deps[tx].amount))
    ELSE Outcome([a1 EXCEPT ![client].held = @ + deps[tx].amount],
                 [deps EXCEPT ![tx].state = DisputeState],
                 OkRes)

\* dispute that looks the record up before it touches the account table
dispute_lookup_first(accts, deps, client, tx) ==
    IF tx \notin DOMAIN deps THEN Outcome(accts, deps, TransactionNotFound(tx))
    ELSE IF deps[tx].client # client
         THEN Outcome(accts, deps, ClientMismatch(tx, client, deps[tx].client))
    ELSE IF deps[tx].state # OkState THEN Outcome(accts, deps, AlreadyDisputed(tx))
    ELSE Outcome([or_default(accts, client) EXCEPT ![client].held = @ + deps[tx].amount],
                 [deps EXCEPT ![tx].state = DisputeState],
                 OkRes)

dispute(accts, deps, client, tx) ==
    LET a1 == or_default(accts, client) IN
    IF tx \notin DOMAIN deps THEN Outcome(a1, deps, TransactionNotFound(tx))
    ELSE IF deps[tx].client # client
         THEN Outcome(a1, deps, ClientMismatch(tx, client, deps[tx].client))
    ELSE IF deps[tx].state # OkState THEN Outcome(a1, deps, AlreadyDisputed(tx))
    ELSE Outcome([a1 EXCEPT ![client].held = @ + deps[tx].amount],
                 [deps EXCEPT ![tx].state = DisputeState],
                 OkRes)

\* resolve that gives the amount back like a chargeback
resolve_returns_funds(accts, deps, client, tx) ==
    LET a1 == or_default(accts, client) IN
    IF tx \notin DOMAIN deps THEN Outcome(a1, deps, TransactionNotFound(tx))
    ELSE IF deps[tx].client # client
         THEN Outcome(a1, deps, ClientMismatch(tx, client, deps[tx].client))
    ELSE IF deps[tx].state # DisputeState THEN Outcome(a1, deps, NotDisputed(tx))
    ELSE Outcome([a1 EXCEPT ![client].held = @ - deps[tx].amount,
                            ![client].total = @ - deps[tx].amount],
                 [deps EXCEPT ![tx].state = OkState],
                 OkRes)

\* resolve that checks the state before the owner
resolve_state_first(accts, deps, client, tx) ==
    LET a1 == or_default(accts, client) IN
    IF tx \notin DOMAIN deps THEN Outcome(a1, deps, TransactionNotFound(tx))
    ELSE IF deps[tx].state # DisputeState THEN Outcome(a1, deps, NotDisputed(tx))
    ELSE IF deps[tx].client # client
         THEN Outcome(a1, deps, ClientMismatch(tx, client, deps[tx].client))
    ELSE Outcome([a1 EXCEPT ![client].held = @ - deps[tx].amount],
                 [deps EXCEPT ![tx].state = OkState],
                 OkRes)

\* resolve that leaves the amount held
resolve_keeps_held(accts, deps, client, tx) ==
    LET a1 == or_default(accts, client) IN
    IF tx \notin DOMAIN deps THEN Outcome(a1, deps, TransactionNotFound(tx))
    ELSE IF deps[tx].client # client
         THEN Outcome(a1, deps, ClientMismatch(tx, client, deps[tx].client))
    ELSE IF deps[tx].state # DisputeState THEN Outcome(a1, deps, NotDisputed(tx))
    ELSE Outcome(a1, [deps EXCEPT ![tx].state = OkState], OkRes)

resolve(accts, deps, client, tx) ==
    LET a1 == or_default(accts, client) IN
    IF tx \notin DOMAIN deps THEN Outcome(a1, deps, TransactionNotFound(tx))
    ELSE IF deps[tx].client # client
         THEN Outcome(a1, deps, ClientMismatch(tx, client, deps[tx].client))
    ELSE IF deps[tx].state # DisputeState THEN Outcome(a1, deps, NotDisputed(tx))
    ELSE Outcome([a1 EXCEPT ![client].held = @ - deps[tx].amount],
                 [deps EXCEPT ![tx].state = OkState],
                 OkRes)

\* chargeback that leaves the amount held
chargeback_keeps_held(accts, deps, client, tx) ==
    LET a1 == or_default(accts, client) IN
    IF tx \notin DOMAIN deps THEN Outcome(a1, deps, TransactionNotFound(tx))
    ELSE IF deps[tx].client # client
         THEN Outcome(a1, deps, ClientMismatch(tx, client, deps[tx].client))
    ELSE IF deps[tx].state # DisputeState THEN Outcome(a1, deps, NotDisputed(tx))
    ELSE Outcome([a1 EXCEPT ![client].total = @ - deps[tx].amount,
                            ![client].locked = TRUE],
                 [deps EXCEPT ![tx].state = ChargebackState],
                 OkRes)

\* chargeback that leaves the amount in total
chargeback_keeps_total(accts, deps, client, tx) ==
    LET a1 == or_default(accts, client) IN
    IF tx \notin DOMAIN deps THEN Outcome(a1, deps, TransactionNotFound(tx))
    ELSE IF deps[tx].client # client
         THEN Outcome(a1, deps, ClientMismatch(tx, client, deps[tx].client))
    ELSE IF deps[tx].state # DisputeState THEN Outcome(a1, deps, NotDisputed(tx))
    ELSE Outcome([a1 EXCEPT ![client].held = @ - deps[tx].amount,
                            ![client].locked = TRUE],
                 [deps EXCEPT ![tx].state = ChargebackState],
                 OkRes)

\* chargeback that does not lock the account
chargeback_no_lock(accts, deps, client, tx) ==
    LET a1 == or_default(accts, client) IN
    IF tx \notin DOMAIN deps THEN Outcome(a1, deps, TransactionNotFound(tx))
    ELSE IF deps[tx].client # client
         THEN Outcome(a1, deps, ClientMismatch(tx, client, deps[tx].client))
    ELSE IF deps[tx].state # DisputeState THEN Outcome(a1, deps, NotDisputed(tx))
    ELSE Outcome([a1 EXCEPT ![client].held = @ - deps[tx].amount,
                            ![client].total = @ - deps[tx].amount],
                 [deps EXCEPT ![tx].state = ChargebackState],
                 OkRes)

\* chargeback without the owner check
chargeback_ignores_owner(accts, deps, client, tx) ==
    LET a1 == or_default(accts, client) IN
    IF tx \notin DOMAIN deps THEN Outcome(a1, deps, TransactionNotFound(tx))
    ELSE IF deps[tx].state # DisputeState THEN Outcome(a1, deps, NotDisputed(tx))
    ELSE Outcome([a1 EXCEPT ![client].held = @ - deps[tx].amount,
                            ![client].total = @ - deps[tx].amount,
                            ![client].locked = TRUE],
                 [deps EXCEPT ![tx].state = ChargebackState],
                 OkRes)

chargeback(accts, deps, client, tx) ==
    LET a1 == or_default(accts, client) IN
    IF tx \notin DOMAIN deps THEN Outcome(a1, deps, TransactionNotFound(tx))
    ELSE IF deps[tx].client # client
         THEN Outcome(a1, deps, ClientMismatch(tx, client, deps[tx].client))
    ELSE IF deps[tx].state # DisputeState THEN Outcome(a1, deps, NotDisputed(tx))
    ELSE Outcome([a1 EXCEPT ![client].held = @ - deps[tx].amount,
                            ![client].total = @ - deps[tx].amount,
                            ![client].locked = TRUE],
                 [deps EXCEPT ![tx].state = ChargebackState],
                 OkRes)

\* ------------------------------------------------------------ the caller
\* Option<Decimal>
None == <<>>
Some(amount) == <<amount>>

TransactionRecord(type, client, tx, amount) ==
    [type |-> type, client |-> client, tx |-> tx, amount |-> amount]

\* every record a caller can feed to the engine
Transactions ==
    {TransactionRecord(type, c, tx, Some(a)) :
        type \in {"deposit", "withdrawal"}, c \in Clients, tx \in Txs, a \in Amounts}
    \cup
    {TransactionRecord(type, c, tx, None) :
        type \in {"dispute", "resolve", "chargeback"}, c \in Clients, tx \in Txs}

\* the call made for a record, on the engine state (accts, deps)
Dispatch(accts, deps, t) ==
    CASE t.type = "deposit" -> deposit(accts, deps, t.client, t.tx, t.amount[1])
      [] t.type = "withdrawal" -> withdraw(accts, deps, t.client, t.tx, t.amount[1])
      [] t.type = "dispute" -> dispute(accts, deps, t.client, t.tx)
      [] t.type = "resolve" -> resolve(accts, deps, t.client, t.tx)
      [] t.type = "chargeback" -> chargeback(accts, deps, t.client, t.tx)

\* the engine after the call; the result goes to the caller
Call(o) ==
    /\ accounts' = o.accounts
    /\ deposits' = o.deposits

Init ==
    /\ accounts = <<>>
    /\ deposits = <<>>
    /\ withdrawn = [c \in Clients |-> 0]
    /\ pc = "loop"
    /\ out = <<>>
    /\ err = <<>>

\* the successful withdrawals after the call for record t with outcome o
Withdrawn(t, o) ==
    IF t.type = "withdrawal" /\ o.res = OkRes
    THEN [withdrawn EXCEPT ![t.client] = @ + t.amount[1]]
    ELSE withdrawn

DoDeposit ==
    \E c \in Clients, tx \in Txs, a \in Amounts :
        /\ Call(deposit(accounts, deposits, c, tx, a))
        /\ UNCHANGED <<withdrawn, pc, out, err>>

DoWithdraw ==
    \E c \in Clients, tx \in Txs, a \in Amounts :
        /\ Call(withdraw(accounts, deposits, c, tx, a))
        /\ withdrawn' = Withdrawn(TransactionRecord("withdrawal", c, tx, Some(a)),
                                  withdraw(accounts, deposits, c, tx, a))
        /\ UNCHANGED <<pc, out, err>>

DoDispute ==
    \E c \in Clients, tx \in Txs :
        /\ Call(dispute(accounts, deposits, c, tx))
        /\ UNCHANGED <<withdrawn, pc, out, err>>

DoResolve ==
    \E c \in Clients, tx \in Txs :
        /\ Call(resolve(accounts, deposits, c, tx))
        /\ UNCHANGED <<withdrawn, pc, out, err>>

DoChargeback ==
    \E c \in Clients, tx \in Txs :
        /\ Call(chargeback(accounts, deposits, c, tx))
        /\ UNCHANGED <<withdrawn, pc, out, err>>

Next == DoDeposit \/ DoWithdraw \/ DoDispute \/ DoResolve \/ DoChargeback

Spec == Init /\ [][Next]_vars

TypeOK ==
    /\ DOMAIN accounts \subseteq Clients
    /\ DOMAIN deposits \subseteq Txs
    /\ \A tx \in DOMAIN deposits :
          /\ deposits[tx].client \in Clients
          /\ deposits[tx].amount \in Amounts
          /\ deposits[tx].state \in DepositState
    /\ pc \in {"loop", "failed", "done"}
    /\ Len(out) <= 1
    /\ Len(err) <= 1

\* ------------------------------------------------------------ the driver
\* deposit and withdrawal records that lack the amount
MissingAmount ==
    {TransactionRecord(type, c, tx, None) :
        type \in {"deposit", "withdrawal"}, c \in Clients, tx \in Txs}

MissingAmountError == [kind |-> "missing amount"]

CsvError == [kind |-> "csv"]

\* the engine's errors that end the run
Fatal == {"ClientMismatch", "DuplicateTransactionId"}

\* a match on the result in which every failure ends the run
match_res_all_fatal(res) ==
    IF res = OkRes THEN [pc |-> "loop", err |-> <<>>]
    ELSE [pc |-> "failed", err |-> <<res>>]

\* the driver's match on the result of a call: where main goes next and
\* the error it returns
match_res(res) ==
    IF res.kind \in Fatal THEN [pc |-> "failed", err |-> <<res>>]
    ELSE [pc |-> "loop", err |-> <<>>]

RECURSIVE Ascending(_)
\* the elements of a set of client ids in ascending order
Ascending(S) ==
    IF S = {} THEN <<>>
    ELSE LET m == CHOOSE x \in S : \A y \in S : x <= y
         IN <<m>> \o Ascending(S \ {m})

\* accounts() that iterates from the largest client id down
accounts_descending(accts) ==
    LET keys == Ascending(DOMAIN accts) IN
    [i \in 1..Len(keys) |->
        <<keys[Len(keys) + 1 - i], accts[keys[Len(keys) + 1 - i]]>>]

\* Engine::accounts(): the (client, account) pairs in the order of the map
accounts_iter(accts) ==
    LET keys == Ascending(DOMAIN accts) IN
    [i \in 1..Len(keys) |-> <<keys[i], accts[keys[i]]>>]

\* a record that gives the total for the available amount
AccountRecord_total_available(client, account) ==
    [client |-> client, available |-> account.total, held |-> account.held,
     total |-> account.total, locked |-> account.locked]

AccountRecord(client, account) ==
    [client |-> client, available |-> available(account),
     held |-> account.held, total |-> account.total,
     locked |-> account.locked]

\* the account records main serializes
Snapshot(accts) ==
    LET pairs == accounts_iter(accts) IN
    [i \in 1..Len(pairs) |-> AccountRecord(pairs[i][1], pairs[i][2])]

\* one iteration of the loop on a well-formed record
MainRecord ==
    /\ pc = "loop"
    /\ \E t \in Transactions :
          LET o == Dispatch(accounts, deposits, t) IN
          /\ Call(o)
          /\ withdrawn' = Withdrawn(t, o)
          /\ pc' = match_res(o.res).pc
          /\ err' = match_res(o.res).err
          /\ out' = out

\* a deposit or withdrawal record without amount: main returns the error
MainMissingAmount ==
    /\ pc = "loop"
    /\ \E t \in MissingAmount :
          /\ pc' = "failed"
          /\ err' = <<MissingAmountError>>
    /\ UNCHANGED <<accounts, deposits, withdrawn, out>>

\* a row that does not deserialize: main returns the error
MainCsvError ==
    /\ pc = "loop"
    /\ pc' = "failed"
    /\ err' = <<CsvError>>
    /\ UNCHANGED <<accounts, deposits, withdrawn, out>>

\* the end of the stream: main writes the account records and returns Ok
MainEnd ==
    /\ pc = "loop"
    /\ out' = <<Snapshot(accounts)>>
    /\ pc' = "done"
    /\ UNCHANGED <<accounts, deposits, withdrawn, err>>

MainNext == MainRecord \/ MainMissingAmount \/ MainCsvError \/ MainEnd

MainSpec == Init /\ [][MainNext]_vars

\* ------------------------------------------------- helpers of the claims
RECURSIVE SumAmounts(_, _)
SumAmounts(deps, txs) ==
    IF txs = {} THEN 0
    ELSE LET tx == CHOOSE x \in txs : TRUE
         IN deps[tx].amount + SumAmounts(deps, txs \ {tx})

\* transaction ids of the deposit records of client c that are in state st
RecordsIn(deps, c, st) ==
    {tx \in DOMAIN deps : deps[tx].client = c /\ deps[tx].state = st}

RecordsOf(deps, c) == {tx \in DOMAIN deps : deps[tx].client = c}

\* the account of c as the next call finds it
AccountOf(accts, c) == or_default(accts, c)[c]

\* the outcome of the call for record t in the current state
Result(t) == Dispatch(accounts, deposits, t)

DisputeTypes == {"dispute", "resolve", "chargeback"}

\* the records of each type, and those of dispute, resolve and chargeback
DepositCalls == {t \in Transactions : t.type = "deposit"}
WithdrawCalls == {t \in Transactions : t.type = "withdrawal"}
DisputeCalls == {t \in Transactions : t.type = "dispute"}
ResolveCalls == {t \in Transactions : t.type = "resolve"}
ChargebackCalls == {t \in Transactions : t.type = "chargeback"}
Disputing == DisputeCalls \cup ResolveCalls \cup ChargebackCalls

\* An account that only failed calls can have left behind: it is the
\* default one and its client owns no deposit record (a successful deposit
\* leaves a record, a successful withdraw needs funds).
LeftByFailedCalls(c) ==
    /\ c \in DOMAIN accounts
    /\ accounts[c] = AccountDefault
    /\ RecordsOf(deposits, c) = {}

\* C1: for every client, held is the sum of the amounts of the client's
\* deposit records that are in the Dispute state (zero when there are none).
C1_HeldIsSumOfDisputed ==
    \A c \in Clients :
        AccountOf(accounts, c).held =
            SumAmounts(deposits, RecordsIn(deposits, c, DisputeState))

\* two open disputes of one client
C1_Witness ==
    \E c \in DOMAIN accounts :
        /\ Cardinality(RecordsIn(deposits, c, DisputeState)) >= 2
        /\ accounts[c].held >= 2

\* C2: a call that returns a failure leaves every account and every deposit
\* record as it was and adds no deposit record (the account it may create
\* for its client is the default one).
C2_FailureIsAtomic ==
    \A t \in Transactions :
        LET o == Result(t) IN
        o.res.kind # "Ok" =>
            /\ o.deposits = deposits
            /\ \A c \in DOMAIN accounts : o.accounts[c] = accounts[c]
            /\ \A c \in DOMAIN o.accounts \ DOMAIN accounts :
                  o.accounts[c] = AccountDefault

\* failed calls of one client beside funds and an open dispute of another
C2_Witness ==
    /\ \E c \in Clients : LeftByFailedCalls(c)
    /\ \E c \in DOMAIN accounts : accounts[c].held > 0 /\ accounts[c].total > 0
    /\ \E t \in Transactions : Result(t).res.kind = "InsufficientFunds"

\* C3: a record's state changes only Ok -> Dispute by a successful dispute,
\* Dispute -> Ok by a successful resolve, Dispute -> Chargeback by a
\* successful chargeback; Chargeback is never left, and every dispute,
\* resolve or chargeback on such a transaction id fails.
C3_Edges ==
    { <<OkState, "dispute", DisputeState>>,
      <<DisputeState, "resolve", OkState>>,
      <<DisputeState, "chargeback", ChargebackState>> }

C3_Calls ==
    \A t \in Transactions :
        LET o == Result(t) IN
        \A tx \in DOMAIN deposits :
            /\ tx \in DOMAIN o.deposits
            /\ o.deposits[tx].state # deposits[tx].state =>
                  /\ o.res = OkRes
                  /\ t.tx = tx
                  /\ <<deposits[tx].state, t.type, o.deposits[tx].state>> \in C3_Edges
            /\ (deposits[tx].state = ChargebackState
                   /\ t.type \in DisputeTypes /\ t.tx = tx)
                  => o.res.kind # "Ok"

C3_Steps ==
    \A tx \in DOMAIN deposits :
        /\ tx \in DOMAIN deposits'
        /\ deposits'[tx].state # deposits[tx].state =>
              \E e \in C3_Edges : e[1] = deposits[tx].state /\ e[3] = deposits'[tx].state
        /\ deposits[tx].state = ChargebackState =>
              deposits'[tx].state = ChargebackState

C3_Lifecycle == [](C3_Calls) /\ [][C3_Steps]_vars

\* a charged-back record whose owner disputes it again, in vain
C3_Witness ==
    \E tx \in DOMAIN deposits :
        /\ deposits[tx].state = ChargebackState
        /\ Result(TransactionRecord("dispute", deposits[tx].client, tx, None)).res
              = AlreadyDisputed(tx)

\* C4: locked is true exactly when some deposit record of the client is in
\* the Chargeback state, and a locked account stays locked.
C4_LockedIff ==
    \A c \in Clients :
        AccountOf(accounts, c).locked <=>
            RecordsIn(deposits, c, ChargebackState) # {}

C4_LockedStays ==
    \A c \in DOMAIN accounts :
        accounts[c].locked => (c \in DOMAIN accounts' /\ accounts'[c].locked)

C4_Locked == [](C4_LockedIff) /\ [][C4_LockedStays]_vars

\* a locked account beside an unlocked one that has a record
C4_Witness ==
    /\ \E c \in DOMAIN accounts :
          accounts[c].locked /\ RecordsIn(deposits, c, ChargebackState) # {}
    /\ \E c \in DOMAIN accounts :
          ~accounts[c].locked /\ RecordsOf(deposits, c) # {}

\* C5: on a locked account deposit and withdraw fail with Locked, while
\* dispute, resolve and chargeback succeed whenever the record belongs to
\* the client and is in the required state.
C5_LockAsymmetry ==
    \A t \in Transactions :
        AccountOf(accounts, t.client).locked =>
            /\ t.type \in {"deposit", "withdrawal"} =>
                  Result(t).res = Locked(t.client)
            /\ ( /\ t.type \in DisputeTypes
                 /\ t.tx \in DOMAIN deposits
                 /\ deposits[t.tx].client = t.client
                 /\ deposits[t.tx].state =
                       (IF t.type = "dispute" THEN OkState ELSE DisputeState) )
               => Result(t).res = OkRes

\* a second chargeback of one client: it acted on an account that the first
\* one had locked
C5_Witness ==
    \E c \in DOMAIN accounts :
        /\ accounts[c].locked
        /\ Cardinality(RecordsIn(deposits, c, ChargebackState)) >= 2

\* the deposit calls that reuse the transaction id of a deposit record
DuplicateDeposits ==
    {t \in DepositCalls : t.tx \in DOMAIN deposits}

\* such a call leaves the account's total and the record as they were
DuplicateLeavesState(t) ==
    LET o == Result(t) IN
    /\ o.accounts[t.client].total = AccountOf(accounts, t.client).total
    /\ t.tx \in DOMAIN o.deposits
    /\ o.deposits[t.tx] = deposits[t.tx]

\* C6 (as stated): a deposit whose transaction id is already among the
\* deposit records fails with DuplicateTransactionId, whatever the record's
\* state and owner, and leaves total and the record unchanged.
C6_DuplicateAlwaysReported ==
    \A t \in DuplicateDeposits :
        /\ Result(t).res = DuplicateTransactionId(t.tx)
        /\ DuplicateLeavesState(t)

\* C6 (amended): such a deposit fails with DuplicateTransactionId when the
\* depositing client's account is not locked and with Locked when it is;
\* in both cases total and the existing record are unchanged.
C6_DuplicateUnlessLocked ==
    \A t \in DuplicateDeposits :
        /\ Result(t).res = IF AccountOf(accounts, t.client).locked
                           THEN Locked(t.client)
                           ELSE DuplicateTransactionId(t.tx)
        /\ DuplicateLeavesState(t)

\* a client whose calls have all failed, an id recorded for another client
\* and charged back, and the deposit of the former on that id
C6_Witness ==
    \E t \in DuplicateDeposits :
        /\ LeftByFailedCalls(t.client)
        /\ deposits[t.tx].client # t.client
        /\ deposits[t.tx].state = ChargebackState
        /\ Result(t).res = DuplicateTransactionId(t.tx)

\* C7: on an unlocked account withdraw succeeds exactly when
\* total - held >= amount, then subtracting amount from total and leaving
\* held; otherwise it fails with InsufficientFunds carrying the client, the
\* available amount before the call and the requested amount, and the
\* account is unchanged.
C7_Withdraw ==
    \A t \in WithdrawCalls :
        LET acct == AccountOf(accounts, t.client)
            o == Result(t)
        IN ~acct.locked =>
              LET a == t.amount[1] IN
              IF acct.total - acct.held >= a
              THEN /\ o.res = OkRes
                   /\ o.accounts[t.client] = [acct EXCEPT !.total = acct.total - a]
              ELSE /\ o.res = InsufficientFunds(t.client, acct.total - acct.held, a)
                   /\ o.accounts[t.client] = acct

\* an unlocked account after a withdrawal (total is below its deposits),
\* with funds held and exactly one more amount available
C7_Witness ==
    \E c \in DOMAIN accounts :
        /\ ~accounts[c].locked
        /\ accounts[c].held > 0
        /\ accounts[c].total < SumAmounts(deposits, RecordsOf(deposits, c))
        /\ available(accounts[c]) \in Amounts
        /\ \E tx \in Txs :
              Result(TransactionRecord("withdrawal", c, tx,
                                       Some(available(accounts[c])))).res = OkRes

\* C8: dispute, resolve and chargeback report TransactionNotFound first,
\* then ClientMismatch (also when the state is wrong as well), and only
\* then AlreadyDisputed (dispute) or NotDisputed (resolve, chargeback).
C8_Precedence ==
    \A t \in Disputing :
        LET required == IF t.type = "dispute" THEN OkState ELSE DisputeState
            r == Result(t).res
        IN IF t.tx \notin DOMAIN deposits THEN r = TransactionNotFound(t.tx)
              ELSE IF deposits[t.tx].client # t.client
                   THEN r = ClientMismatch(t.tx, t.client, deposits[t.tx].client)
              ELSE IF deposits[t.tx].state # required
                   THEN r = IF t.type = "dispute" THEN AlreadyDisputed(t.tx)
                                                  ELSE NotDisputed(t.tx)
              ELSE r = OkRes

\* a client other than the owner resolves a record that is not in Dispute
C8_Witness ==
    \E t \in ResolveCalls :
        /\ t.tx \in DOMAIN deposits
        /\ deposits[t.tx].client # t.client
        /\ deposits[t.tx].state = ChargebackState
        /\ LeftByFailedCalls(t.client)
        /\ Result(t).res.kind = "ClientMismatch"

\* C9: a successful dispute leaves total and adds the deposit's amount to
\* held; the resolve that follows it immediately succeeds and brings every
\* account and every deposit record back to what they were before the
\* dispute.
C9_RoundTrip ==
    \A t \in DisputeCalls :
        LET c == t.client
            first == Result(t)
            second == resolve(first.accounts, first.deposits, c, t.tx)
        IN first.res = OkRes =>
              /\ first.accounts[c].total = accounts[c].total
              /\ first.accounts[c].held = accounts[c].held + deposits[t.tx].amount
              /\ second.res = OkRes
              /\ second.accounts = accounts
              /\ second.deposits = deposits

\* a dispute is open beside another one of the same client, and the
\* client's remaining record can be disputed
C9_Witness ==
    \E t \in DisputeCalls :
        /\ Result(t).res = OkRes
        /\ accounts[t.client].held > 0
        /\ accounts[t.client].total > accounts[t.client].held

\* C10: a successful chargeback takes the deposit's original amount from
\* held and from total, locks the account and puts the record in
\* Chargeback; deposit, dispute, chargeback of one transaction in a row
\* bring total and held back to their values before the deposit and leave
\* the account locked.
C10_Effect ==
    \A t \in ChargebackCalls :
        LET c == t.client
            o == Result(t)
        IN o.res = OkRes =>
              /\ o.accounts[c] =
                    [total |-> accounts[c].total - deposits[t.tx].amount,
                     held |-> accounts[c].held - deposits[t.tx].amount,
                     locked |-> TRUE]
              /\ o.deposits[t.tx] = [deposits[t.tx] EXCEPT !.state = ChargebackState]

C10_Sequence ==
    \A t \in DepositCalls :
        LET c == t.client
            before == AccountOf(accounts, c)
            first == Result(t)
            second == dispute(first.accounts, first.deposits, c, t.tx)
            third == chargeback(second.accounts, second.deposits, c, t.tx)
        IN first.res = OkRes =>
              /\ second.res = OkRes
              /\ third.res = OkRes
              /\ third.accounts[c] = [total |-> before.total,
                                      held |-> before.held,
                                      locked |-> TRUE]
              /\ third.deposits[t.tx].state = ChargebackState

C10_Chargeback == C10_Effect /\ C10_Sequence

\* what deposit, dispute, chargeback leave of a client's only record: the
\* record charged back and the locked account with nothing in it
C10_Witness ==
    \E c \in DOMAIN accounts, tx \in DOMAIN deposits :
        /\ RecordsOf(deposits, c) = {tx}
        /\ deposits[tx].state = ChargebackState
        /\ accounts[c] = [total |-> 0, held |-> 0, locked |-> TRUE]

\* C11: withdraw never creates or changes a deposit record, whether it
\* succeeds or fails; a dispute, resolve or chargeback that follows it on
\* its transaction id, when no deposit recorded that id, fails with
\* TransactionNotFound.
C11_WithdrawKeepsRecords ==
    \A t \in WithdrawCalls :
        LET o == Result(t) IN
        /\ o.deposits = deposits
        /\ t.tx \notin DOMAIN deposits =>
              \A d \in Disputing :
                  d.tx = t.tx =>
                      Dispatch(o.accounts, o.deposits, d).res
                          = TransactionNotFound(d.tx)

\* a withdrawal has succeeded and some transaction id has no record
C11_Witness ==
    /\ \E c \in Clients : withdrawn[c] > 0
    /\ Txs \ DOMAIN deposits # {}

\* what a dispute, resolve or chargeback by client t.client leaves alone
\* when it fails: the deposit table and every account there was
KeepsBalancesAndRecords(o) ==
    /\ o.deposits = deposits
    /\ \A c \in DOMAIN accounts : o.accounts[c] = accounts[c]

NotTheOwner(t) ==
    t.tx \in DOMAIN deposits /\ deposits[t.tx].client # t.client

\* C12 (as stated): a dispute, resolve or chargeback on a record owned by
\* another client fails with ClientMismatch and leaves the account table,
\* including which clients have an account, and the deposit table as they
\* were.
C12_MismatchChangesNothing ==
    \A t \in Disputing :
        NotTheOwner(t) =>
            LET o == Result(t) IN
            /\ o.res = ClientMismatch(t.tx, t.client, deposits[t.tx].client)
            /\ o.deposits = deposits
            /\ o.accounts = accounts

\* C12 (amended): such a call fails with ClientMismatch and leaves the
\* deposit table and every existing account as they were; a calling client
\* that had no account gets the default one.
C12_MismatchKeepsBalances ==
    \A t \in Disputing :
        NotTheOwner(t) =>
            LET o == Result(t) IN
            /\ o.res = ClientMismatch(t.tx, t.client, deposits[t.tx].client)
            /\ KeepsBalancesAndRecords(o)
            /\ DOMAIN o.accounts = DOMAIN accounts \cup {t.client}
            /\ t.client \notin DOMAIN accounts =>
                  o.accounts[t.client] = AccountDefault

\* a client with an account of its own charges back another client's open
\* dispute
C12_Witness ==
    \E t \in ChargebackCalls :
        /\ NotTheOwner(t)
        /\ deposits[t.tx].state = DisputeState
        /\ t.client \in DOMAIN accounts
        /\ accounts[t.client].total > 0
        /\ Result(t).res.kind = "ClientMismatch"

\* C13: every call with client c leaves an account for c; an account that a
\* failed call creates is the default one; no account ever disappears.
C13_Calls ==
    \A t \in Transactions :
        LET o == Result(t) IN
        /\ t.client \in DOMAIN o.accounts
        /\ DOMAIN accounts \subseteq DOMAIN o.accounts
        /\ (t.client \notin DOMAIN accounts /\ o.res.kind # "Ok") =>
              o.accounts[t.client] = AccountDefault

C13_AccountsStay == DOMAIN accounts \subseteq DOMAIN accounts'

C13_AccountForEveryClient == [](C13_Calls) /\ [][C13_AccountsStay]_vars

\* the only account there is was created by a call that failed
C13_Witness ==
    \E c \in Clients :
        /\ DOMAIN accounts = {c}
        /\ LeftByFailedCalls(c)
        /\ DOMAIN deposits = {}

\* C14: a deposit record keeps its owning client and its amount under every
\* operation and is never removed.
C14_Step ==
    \A tx \in DOMAIN deposits :
        /\ tx \in DOMAIN deposits'
        /\ deposits'[tx].client = deposits[tx].client
        /\ deposits'[tx].amount = deposits[tx].amount

C14_RecordIsKept == [][C14_Step]_vars

\* a record that has been through dispute and chargeback, beside a second
\* record of another client
C14_Witness ==
    \E tx \in DOMAIN deposits, ty \in DOMAIN deposits :
        /\ deposits[tx].state = ChargebackState
        /\ deposits[tx].amount = 2
        /\ deposits[ty].client # deposits[tx].client

NonFatal ==
    {"Locked", "InsufficientFunds", "AlreadyDisputed", "NotDisputed",
     "TransactionNotFound"}

\* C15: in the loop, a record whose call fails with ClientMismatch or
\* DuplicateTransactionId makes main return that error; a record whose call
\* fails with Locked, InsufficientFunds, AlreadyDisputed, NotDisputed or
\* TransactionNotFound leaves main in the loop; once main has returned, no
\* step is taken, so no later record reaches the engine.
C15_Match ==
    pc = "loop" =>
        \A t \in Transactions :
            LET res == Result(t).res IN
            /\ res.kind \in Fatal =>
                  match_res(res) = [pc |-> "failed", err |-> <<res>>]
            /\ res.kind \in NonFatal =>
                  match_res(res) = [pc |-> "loop", err |-> <<>>]

C15_Returned == (pc = "failed") <=> (err # <<>>)

C15_StepsInLoop ==
    /\ pc = "loop"
    /\ \/ \E t \in Transactions :
             /\ accounts' = Result(t).accounts
             /\ deposits' = Result(t).deposits
       \/ UNCHANGED <<accounts, deposits>>

C15_FatalStops == [](C15_Match /\ C15_Returned) /\ [][C15_StepsInLoop]_vars

\* main has returned DuplicateTransactionId after records were applied,
\* one client being locked
C15_Witness ==
    /\ pc = "failed"
    /\ err # <<>>
    /\ err[1].kind = "DuplicateTransactionId"
    /\ \E c \in DOMAIN accounts : accounts[c].locked

\* the written records are those of the accounts, one per account in
\* ascending client order, with available = total - held
SnapshotOfAccounts(records) ==
    /\ Len(records) = Cardinality(DOMAIN accounts)
    /\ \A i \in 1..Len(records) :
          /\ records[i].client \in DOMAIN accounts
          /\ records[i].total = accounts[records[i].client].total
          /\ records[i].held = accounts[records[i].client].held
          /\ records[i].locked = accounts[records[i].client].locked
          /\ records[i].available = records[i].total - records[i].held
    /\ \A i \in 1..Len(records), j \in 1..Len(records) :
          i < j => records[i].client < records[j].client

\* C16 (as stated): the account records are written when the stream is
\* exhausted and also when main has stopped on a fatal failure, each with
\* available = total - held.
C16_SnapshotInBothCases ==
    /\ pc = "done" => out # <<>> /\ SnapshotOfAccounts(out[1])
    /\ (pc = "failed" /\ err[1].kind \in Fatal) =>
          out # <<>> /\ SnapshotOfAccounts(out[1])

\* C16 (amended): the account records are written, each with
\* available = total - held, when the stream is exhausted; main writes
\* nothing when it returns an error.
C16_SnapshotAtEnd ==
    /\ pc = "done" => out # <<>> /\ SnapshotOfAccounts(out[1])
    /\ pc # "done" => out = <<>>

\* the records of two accounts are written, one with a disputed amount
C16_Witness ==
    /\ pc = "done"
    /\ out # <<>>
    /\ Len(out[1]) = 2
    /\ \E i \in 1..2 : out[1][i].held > 0 /\ out[1][i].total > out[1][i].held

\* C17: accounts() yields one pair for each account of the engine, the
\* account being the stored one, in ascending order of the client id, so
\* the sequence is fixed by the engine's state; the call that main makes
\* of it changes neither table.
C17_Pairs ==
    LET pairs == accounts_iter(accounts) IN
    /\ {pairs[i][1] : i \in 1..Len(pairs)} = DOMAIN accounts
    /\ \A i \in 1..Len(pairs) : pairs[i][2] = accounts[pairs[i][1]]
    /\ \A i \in 1..Len(pairs), j \in 1..Len(pairs) :
          i < j => pairs[i][1] < pairs[j][1]

C17_ReadOnly == out' # out => UNCHANGED <<accounts, deposits>>

C17_Snapshot == [](C17_Pairs) /\ [][C17_ReadOnly]_vars

\* main has iterated two accounts, the larger client id being the one that
\* got its account first (the smaller owns no record, the larger does)
C17_Witness ==
    /\ pc = "done"
    /\ DOMAIN accounts = {1, 2}
    /\ LeftByFailedCalls(1)
    /\ RecordsOf(deposits, 2) # {}
    /\ out[1][1].client = 1

\* C18: balances are not clamped: a dispute of the client's own Ok record
\* succeeds whatever the total is, a successful chargeback takes the full
\* amount from the total, and deposit(c, t, a), withdraw(c, u, a),
\* dispute(c, t), chargeback(c, t) on an account with no funds and a free id
\* t all succeed and end with total = -a, held = 0, locked.
C18_Sequence(c, t, u, a) ==
    LET o1 == deposit(accounts, deposits, c, t, a)
        o2 == withdraw(o1.accounts, o1.deposits, c, u, a)
        o3 == dispute(o2.accounts, o2.deposits, c, t)
        o4 == chargeback(o3.accounts, o3.deposits, c, t)
    IN /\ o1.res = OkRes /\ o2.res = OkRes /\ o3.res = OkRes /\ o4.res = OkRes
       /\ o3.accounts[c].total = 0
       /\ o4.accounts[c] = [total |-> 0 - a, held |-> 0, locked |-> TRUE]

C18_NotClamped ==
    /\ \A t \in DisputeCalls :
          (/\ t.tx \in DOMAIN deposits
           /\ deposits[t.tx].client = t.client
           /\ deposits[t.tx].state = OkState) => Result(t).res = OkRes
    /\ \A t \in ChargebackCalls :
          Result(t).res = OkRes =>
              Result(t).accounts[t.client].total
                  = accounts[t.client].total - deposits[t.tx].amount
    /\ \A c \in Clients, t \in Txs, u \in Txs, a \in Amounts :
          (AccountOf(accounts, c) = AccountDefault /\ t \notin DOMAIN deposits)
              => C18_Sequence(c, t, u, a)

\* a locked account with a negative total and nothing held
C18_Witness ==
    \E c \in DOMAIN accounts :
        /\ accounts[c].total < 0
        /\ accounts[c].held = 0
        /\ accounts[c].locked

\* C19: for every client, total is the sum of the amounts of the client's
\* records that are not in the Chargeback state minus the sum of the
\* client's successful withdrawals; a failed call, a dispute and a resolve
\* change no total.
C19_Total ==
    \A c \in Clients :
        AccountOf(accounts, c).total
            = SumAmounts(deposits,
                         RecordsOf(deposits, c) \ RecordsIn(deposits, c, ChargebackState))
              - withdrawn[c]

C19_KeepTotal ==
    \A t \in Transactions :
        LET o == Result(t) IN
        (o.res # OkRes \/ t.type \in {"dispute", "resolve"}) =>
            \A c \in Clients :
                AccountOf(o.accounts, c).total = AccountOf(accounts, c).total

C19_Conservation == C19_Total /\ C19_KeepTotal

\* a client that has withdrawn owns a charged-back record and another one
C19_Witness ==
    \E c \in Clients :
        /\ withdrawn[c] > 0
        /\ RecordsIn(deposits, c, ChargebackState) # {}
        /\ RecordsOf(deposits, c) \ RecordsIn(deposits, c, ChargebackState) # {}

\* C20: for a locked account, deposit returns Locked also on a recorded
\* transaction id and withdraw returns Locked also when the funds are
\* insufficient; main stays in the loop on either.
C20_LockFirst ==
    \A t \in DepositCalls \cup WithdrawCalls :
        (t.client \in DOMAIN accounts /\ accounts[t.client].locked) =>
            LET o == Result(t) IN
            /\ o.res = Locked(t.client)
            /\ o.accounts = accounts
            /\ o.deposits = deposits
            /\ match_res(o.res) = [pc |-> "loop", err |-> <<>>]

\* main is in the loop with a locked account whose funds are short of every
\* amount, every transaction id being recorded
C20_Witness ==
    /\ pc = "loop"
    /\ DOMAIN deposits = Txs
    /\ \E c \in DOMAIN accounts :
          /\ accounts[c].locked
          /\ \A a \in Amounts : available(accounts[c]) < a

====
